---------------------------- MODULE Spec2Model ----------------------------
(***************************************************************************)
(* Room session engine of SyncView (src/unnamed/part_000): the in-memory   *)
(* maps rooms / onlineUsers / screenSharers and the socket.io handlers     *)
(* join-room, send-message, video-control, screen-share-start,             *)
(* screen-share-stop, leave-room and disconnect.                           *)
(*                                                                         *)
(* A JavaScript Map is a function whose DOMAIN is the set of keys present. *)
(* An array is a sequence.  null / undefined are the sentinels NoSharer    *)
(* and NoTime.  Descriptive pass-through fields (username, avatar,         *)
(* quality, delay, ISO timestamps) are not represented.                    *)
(***************************************************************************)
EXTENDS Integers, Sequences, FiniteSets, TLC

\* ------------------------------------------------------------------ bounds
SocketIds == {"c1", "c2"}
UserIds == {"u1", "u2"}
DemoRoom == "demo"
RoomIds == {DemoRoom, "r1"}
DemoUser == "u1"

\* number of send-message events accepted in one behaviour
MaxSends == 2
\* number of clock advances in one behaviour
MaxTicks == 2

\* ------------------------------------------------------- program constants
\* room.messages.length > 1000
MessageCap == 1000
\* room.messages.slice(-500)
MessageKeep == 500
\* room.messages.slice(-100) in the room-state snapshot
SnapshotLimit == 100

NoUser == "none"
NoSharer == [userId |-> NoUser]
NoTime == -1
NoUrl == "none"
NoControl == [action |-> "none", time |-> NoTime, url |-> NoUrl, at |-> 0]

\* message bodies as character sequences
ChatBody == <<" ", "h", "i", " ">>
Bodies == { <<"h", "i">>, ChatBody, <<" ", " ">> }
\* the time field of a video-control payload (NoTime: field absent)
Times == {NoTime, 0, 10, 42}
Urls == {"v2"}
\* video-control payloads: play / pause / seek with or without a time,
\* change-video with a url, and an action the switch does not know
Controls ==
    [action : {"play", "pause", "seek"}, time : Times, url : {NoUrl}]
    \cup [action : {"change-video"}, time : {NoTime}, url : Urls]
    \cup [action : {"stop"}, time : {NoTime}, url : {NoUrl}]
\* milliseconds by which the clock may advance between two events
TickSteps == {1, 5000}
\* room passwords (NoPassword: null in the room, absent in a request)
NoPassword == "none"
Passwords == {"abc123", "zzz"}
\* account emails
DemoEmail == "demo@watchparty.com"
Emails == {"e1", "e2"}
NoRequest == [route |-> "none", userId |-> NoUser, roomId |-> "none",
              password |-> NoPassword]
NoResponse == [status |-> 0, rooms |-> {}]

VARIABLES
    rooms,          \* Map roomId -> room
    onlineUsers,    \* Map socket.id -> [userId, roomId]
    screenSharers,  \* Map userId -> [roomId, socketId]
    conn,           \* socket.id -> "new" | "open" | "closed"
    ioRooms,        \* socket.io adapter: roomId -> set of joined socket ids
    emitted,        \* what the last handled event emitted, in order
    last,           \* the last handled event
    msgSeq,         \* number of message ids generated so far
    budget,         \* send-message events that may still be accepted
    control,        \* roomId -> the last video-control applied to the room
    now,            \* Date.now()
    ticks,          \* clock advances so far
    users,          \* Map userId -> account
    pending,        \* register requests awaiting bcrypt.hash: userId -> email
    minted,         \* room ids generated so far
    request,        \* the last HTTP request handled
    response        \* its response

\* the state of the HTTP routes
http == <<users, pending, minted, request, response>>

vars == <<rooms, onlineUsers, screenSharers, conn, ioRooms, emitted, last,
          msgSeq, budget, control, now, ticks, http>>

\* the variables no socket handler other than send-message / video-control writes
aux == <<msgSeq, budget, control, now, ticks, http>>

\* ----------------------------------------------------------------- helpers
MapSet(m, k, v) == [x \in (DOMAIN m) \cup {k} |-> IF x = k THEN v ELSE m[x]]

MapDelete(m, k) == [x \in (DOMAIN m) \ {k} |-> m[x]]

\* a find whose predicate is always truthy: the first row, whoever it belongs to
FindByIdAnyRow(participants, userId) ==
    IF Len(participants) > 0 THEN 1 ELSE 0

\* Array.prototype.find(p => p.id === userId): index of the first match, 0 if none
FindById(participants, userId) ==
    IF \E i \in 1..Len(participants) : participants[i].id = userId
    THEN CHOOSE i \in 1..Len(participants) :
            /\ participants[i].id = userId
            /\ \A j \in 1..(i - 1) : participants[j].id # userId
    ELSE 0

\* Array.prototype.slice(-n) for n >= 0 (slice(-0) is slice(0): the whole array)
SliceLast(s, n) ==
    IF n = 0 \/ n >= Len(s) THEN s ELSE SubSeq(s, Len(s) - n + 1, Len(s))

IsSpace(ch) == ch = " "

RECURSIVE TrimStart(_)
TrimStart(s) ==
    IF s # <<>> /\ IsSpace(Head(s)) THEN TrimStart(Tail(s)) ELSE s

RECURSIVE TrimEnd(_)
TrimEnd(s) ==
    IF s # <<>> /\ IsSpace(s[Len(s)]) THEN TrimEnd(SubSeq(s, 1, Len(s) - 1)) ELSE s

\* a trim that returns the string as it is
TrimNothing(s) == s

\* String.prototype.trim
Trim(s) == TrimEnd(TrimStart(s))

\* one outbound emission: event name, receiving sockets, payload
Emit(event, to, userId, payload) ==
    [event |-> event, to |-> to, userId |-> userId, payload |-> payload]

\* io.to(roomId) used where socket.to(roomId) is meant: the sender is included
SocketToIncludingSender(members, roomId, socketId) == members[roomId]

\* socket.to(roomId): every socket joined to the io room except the sender
SocketTo(members, roomId, socketId) == members[roomId] \ {socketId}

\* io.to(roomId): every socket joined to the io room
IoTo(members, roomId) == members[roomId]

Event(name, socketId, roomId, userId) ==
    [name |-> name, socketId |-> socketId, roomId |-> roomId, userId |-> userId]

\* the room literal of initData / create-room
NewRoom(hostId, videoUrl, isPrivate, password, t) ==
    [ hostId |-> hostId, videoUrl |-> videoUrl, isPrivate |-> isPrivate,
      password |-> password, participants |-> <<>>, messages |-> <<>>,
      isPlaying |-> FALSE, currentTime |-> 0, lastUpdate |-> t,
      screenSharer |-> NoSharer ]

\* -------------------------------------------------------------------- Init
Init ==
    /\ rooms = [r \in {DemoRoom} |-> NewRoom(DemoUser, "v1", FALSE, "none", 0)]
    /\ onlineUsers = [c \in {} |-> NoSharer]
    /\ screenSharers = [u \in {} |-> NoSharer]
    /\ conn = [c \in SocketIds |-> "new"]
    /\ ioRooms = [r \in RoomIds |-> {}]
    /\ emitted = <<>>
    /\ last = Event("init", "none", "none", NoUser)
    /\ msgSeq = 0
    /\ budget = MaxSends
    /\ control = [r \in RoomIds |-> NoControl]
    /\ now = 0
    /\ ticks = 0
    /\ users = [u \in {DemoUser} |-> [email |-> DemoEmail, rooms |-> <<>>]]
    /\ pending = [u \in {} |-> DemoEmail]
    /\ minted = {DemoRoom}
    /\ request = NoRequest
    /\ response = NoResponse

\* io.on('connection')
Connect(c) ==
    /\ conn[c] = "new"
    /\ conn' = [conn EXCEPT ![c] = "open"]
    /\ emitted' = <<>>
    /\ last' = Event("connection", c, "none", NoUser)
    /\ UNCHANGED <<rooms, onlineUsers, screenSharers, ioRooms, aux>>

\* the participant row pushed by join-room
Participant(userId, socketId) ==
    [id |-> userId, socketId |-> socketId, isSharingScreen |-> FALSE]

\* a join that pushes a row without looking for an existing one
JoinParticipantsAlwaysPush(participants, userId, socketId) ==
    Append(participants, Participant(userId, socketId))

\* a join that puts the new row at the head of the roster
JoinParticipantsAtFront(participants, userId, socketId) ==
    IF FindById(participants, userId) = 0
    THEN <<Participant(userId, socketId)>> \o participants
    ELSE participants

\* room.participants after join-room
JoinParticipants(participants, userId, socketId) ==
    IF FindById(participants, userId) = 0
    THEN Append(participants, Participant(userId, socketId))
    ELSE participants

\* the room-state snapshot sent to the joining socket
RoomState(room) ==
    [ participants |-> room.participants,
      messages |-> SliceLast(room.messages, SnapshotLimit),
      videoState |-> [ url |-> room.videoUrl, isPlaying |-> room.isPlaying,
                       currentTime |-> room.currentTime,
                       lastUpdate |-> room.lastUpdate ],
      screenSharer |-> room.screenSharer ]

\* a join that enters the io room and the reverse index before it looks the
\* room up
JoinRoomRegistersFirst(c, r, u) ==
    /\ conn[c] = "open"
    /\ last' = Event("join-room", c, r, u)
    /\ LET members == [ioRooms EXCEPT ![r] = @ \cup {c}]
       IN /\ ioRooms' = members
          /\ onlineUsers' = MapSet(onlineUsers, c, [userId |-> u, roomId |-> r])
          /\ IF r \notin DOMAIN rooms
             THEN /\ emitted' = << Emit("error", {c}, NoUser, <<>>) >>
                  /\ UNCHANGED rooms
             ELSE LET room == [rooms[r] EXCEPT
                                  !.participants = JoinParticipants(@, u, c)]
                  IN /\ rooms' = MapSet(rooms, r, room)
                     /\ emitted' =
                          << Emit("user-joined", SocketTo(members, r, c), u, <<>>),
                             Emit("room-state", {c}, NoUser, <<RoomState(room)>>),
                             Emit("participants-updated", IoTo(members, r), NoUser,
                                  room.participants) >>
    /\ UNCHANGED <<screenSharers, conn, aux>>

\* socket.on('join-room')
JoinRoom(c, r, u) ==
    /\ conn[c] = "open"
    /\ last' = Event("join-room", c, r, u)
    /\ IF r \notin DOMAIN rooms
       THEN /\ emitted' = << Emit("error", {c}, NoUser, <<>>) >>
            /\ UNCHANGED <<rooms, onlineUsers, ioRooms>>
       ELSE LET room == [rooms[r] EXCEPT
                            !.participants = JoinParticipants(@, u, c)]
                members == [ioRooms EXCEPT ![r] = @ \cup {c}]
            IN /\ rooms' = MapSet(rooms, r, room)
               /\ ioRooms' = members
               /\ onlineUsers' = MapSet(onlineUsers, c, [userId |-> u, roomId |-> r])
               /\ emitted' = << Emit("user-joined", SocketTo(members, r, c), u, <<>>),
                                Emit("room-state", {c}, NoUser, <<RoomState(room)>>),
                                Emit("participants-updated", IoTo(members, r), NoUser,
                                     room.participants) >>
    /\ UNCHANGED <<screenSharers, conn, aux>>

\* a push that puts the new message ahead of the stored ones
PushMessageNewestFirst(messages, msg) ==
    LET pushed == <<msg>> \o messages
    IN IF Len(pushed) > MessageCap THEN SliceLast(pushed, MessageKeep) ELSE pushed

\* a push without the capacity check
PushMessageNoEviction(messages, msg) == Append(messages, msg)

\* a push that truncates the stored log first and appends afterwards
PushMessageTruncateFirst(messages, msg) ==
    IF Len(messages) + 1 > MessageCap
    THEN Append(SliceLast(messages, MessageKeep), msg)
    ELSE Append(messages, msg)

\* room.messages after the push and the capacity check of send-message
PushMessage(messages, msg) ==
    LET pushed == Append(messages, msg)
    IN IF Len(pushed) > MessageCap THEN SliceLast(pushed, MessageKeep) ELSE pushed

\* a send-message event with the body it carried
MessageEvent(socketId, roomId, userId, body) ==
    [name |-> "send-message", socketId |-> socketId, roomId |-> roomId,
     userId |-> userId, body |-> body]

\* socket.on('send-message')
SendMessage(c, r, u, body) ==
    /\ conn[c] = "open"
    /\ budget > 0
    /\ last' = MessageEvent(c, r, u, body)
    /\ IF r \notin DOMAIN rooms
       THEN /\ emitted' = <<>>
            /\ UNCHANGED <<rooms, msgSeq, budget>>
       ELSE IF FindById(rooms[r].participants, u) = 0
       THEN /\ emitted' = <<>>
            /\ UNCHANGED <<rooms, msgSeq, budget>>
       ELSE LET messageData == [id |-> msgSeq + 1, userId |-> u, message |-> Trim(body)]
                room == [rooms[r] EXCEPT !.messages = PushMessage(@, messageData)]
            IN /\ rooms' = MapSet(rooms, r, room)
               /\ msgSeq' = msgSeq + 1
               /\ budget' = budget - 1
               /\ emitted' = << Emit("new-message", IoTo(ioRooms, r), u, <<messageData>>) >>
    /\ UNCHANGED <<onlineUsers, screenSharers, conn, ioRooms, control, now, ticks, http>>

\* socket.on('send-message') of the part_001 variants: the body is stored as
\* received and the log is pushed to without a capacity check
SendMessagePart001(c, r, u, body) ==
    /\ conn[c] = "open"
    /\ budget > 0
    /\ last' = MessageEvent(c, r, u, body)
    /\ IF r \notin DOMAIN rooms
       THEN /\ emitted' = <<>>
            /\ UNCHANGED <<rooms, msgSeq, budget>>
       ELSE IF FindById(rooms[r].participants, u) = 0
       THEN /\ emitted' = <<>>
            /\ UNCHANGED <<rooms, msgSeq, budget>>
       ELSE LET messageData == [id |-> msgSeq + 1, userId |-> u, message |-> body]
                room == [rooms[r] EXCEPT !.messages = Append(@, messageData)]
            IN /\ rooms' = MapSet(rooms, r, room)
               /\ msgSeq' = msgSeq + 1
               /\ budget' = budget - 1
               /\ emitted' = << Emit("new-message", IoTo(ioRooms, r), u, <<messageData>>) >>
    /\ UNCHANGED <<onlineUsers, screenSharers, conn, ioRooms, control, now, ticks, http>>

\* participant = room.participants.find(...); if (participant) participant.isSharingScreen = flag
SetSharing(participants, userId, flag) ==
    LET i == FindById(participants, userId)
    IN IF i = 0 THEN participants
       ELSE [participants EXCEPT ![i].isSharingScreen = flag]

\* socket.on('screen-share-start')
ScreenShareStart(c, r, u) ==
    /\ conn[c] = "open"
    /\ last' = Event("screen-share-start", c, r, u)
    /\ IF r \notin DOMAIN rooms
       THEN /\ emitted' = <<>>
            /\ UNCHANGED <<rooms, screenSharers>>
       ELSE LET room == [rooms[r] EXCEPT
                            !.screenSharer = [userId |-> u],
                            !.participants = SetSharing(@, u, TRUE)]
            IN /\ rooms' = MapSet(rooms, r, room)
               /\ screenSharers' = MapSet(screenSharers, u, [roomId |-> r, socketId |-> c])
               /\ emitted' = << Emit("screen-share-start", IoTo(ioRooms, r), u, <<>>),
                                Emit("participants-updated", IoTo(ioRooms, r), NoUser,
                                     room.participants) >>
    /\ UNCHANGED <<onlineUsers, conn, ioRooms, aux>>

\* a stop that clears the slot whoever holds it
ClearSharerWhoeverHolds(screenSharer, userId) == NoSharer

\* room.screenSharer after "if (room.screenSharer && room.screenSharer.userId === userId)"
ClearSharer(screenSharer, userId) ==
    IF screenSharer # NoSharer /\ screenSharer.userId = userId
    THEN NoSharer ELSE screenSharer

\* the frame field of a screen-frame payload
Frames == {"f1"}

\* a relay that drops the frames of anyone but the room's sharer
ScreenFrameFromSharerOnly(c, r, u, frame) ==
    /\ conn[c] = "open"
    /\ last' = Event("screen-frame", c, r, u)
    /\ emitted' = IF r \in DOMAIN rooms /\ rooms[r].screenSharer = [userId |-> u]
                  THEN << Emit("screen-frame", SocketTo(ioRooms, r, c), u, <<frame>>) >>
                  ELSE <<>>
    /\ UNCHANGED <<rooms, onlineUsers, screenSharers, conn, ioRooms, aux>>

\* socket.on('screen-frame')
ScreenFrame(c, r, u, frame) ==
    /\ conn[c] = "open"
    /\ last' = Event("screen-frame", c, r, u)
    /\ emitted' = << Emit("screen-frame", SocketTo(ioRooms, r, c), u, <<frame>>) >>
    /\ UNCHANGED <<rooms, onlineUsers, screenSharers, conn, ioRooms, aux>>

\* a stop that is broadcast without looking the room up
ScreenShareStopNoLookup(c, r, u) ==
    /\ conn[c] = "open"
    /\ last' = Event("screen-share-stop", c, r, u)
    /\ emitted' = << Emit("screen-share-stop", IoTo(ioRooms, r), u, <<>>) >>
    /\ screenSharers' = MapDelete(screenSharers, u)
    /\ UNCHANGED <<rooms, onlineUsers, conn, ioRooms, aux>>

\* socket.on('screen-share-stop')
ScreenShareStop(c, r, u) ==
    /\ conn[c] = "open"
    /\ last' = Event("screen-share-stop", c, r, u)
    /\ IF r \notin DOMAIN rooms
       THEN /\ emitted' = <<>>
            /\ UNCHANGED <<rooms, screenSharers>>
       ELSE LET room == [rooms[r] EXCEPT
                            !.screenSharer = ClearSharer(@, u),
                            !.participants = SetSharing(@, u, FALSE)]
            IN /\ rooms' = MapSet(rooms, r, room)
               /\ screenSharers' = MapDelete(screenSharers, u)
               /\ emitted' = << Emit("screen-share-stop", IoTo(ioRooms, r), u, <<>>),
                                Emit("participants-updated", IoTo(ioRooms, r), NoUser,
                                     room.participants) >>
    /\ UNCHANGED <<onlineUsers, conn, ioRooms, aux>>

\* a leave that never announces the end of the share
StopIfSharerSilent(screenSharer, userId, to) == <<>>

\* the screen-share-stop emitted by leave-room / disconnect when the leaver is the sharer
StopIfSharer(screenSharer, userId, to) ==
    IF screenSharer # NoSharer /\ screenSharer.userId = userId
    THEN << Emit("screen-share-stop", to, userId, <<>>) >>
    ELSE <<>>

\* room.participants.filter(p => p.id !== userId)
FilterNotId(participants, userId) ==
    LET keep(p) == p.id # userId IN SelectSeq(participants, keep)

\* room.participants.filter(p => p.socketId !== socket.id)
FilterNotSocket(participants, socketId) ==
    LET keep(p) == p.socketId # socketId IN SelectSeq(participants, keep)

\* a leave that discards the room once its roster is empty
LeaveRoomDropsEmptyRoom(c, r, u) ==
    /\ conn[c] = "open"
    /\ last' = Event("leave-room", c, r, u)
    /\ IF r \in DOMAIN rooms
       THEN LET room == [rooms[r] EXCEPT
                            !.screenSharer = ClearSharer(@, u),
                            !.participants = FilterNotId(@, u)]
            IN /\ rooms' = IF room.participants = <<>>
                           THEN MapDelete(rooms, r) ELSE MapSet(rooms, r, room)
               /\ emitted' = StopIfSharer(rooms[r].screenSharer, u, IoTo(ioRooms, r))
                             \o << Emit("user-left", SocketTo(ioRooms, r, c), u, <<>>),
                                   Emit("participants-updated", IoTo(ioRooms, r), NoUser,
                                        room.participants) >>
       ELSE /\ emitted' = <<>>
            /\ UNCHANGED rooms
    /\ screenSharers' = MapDelete(screenSharers, u)
    /\ onlineUsers' = MapDelete(onlineUsers, c)
    /\ ioRooms' = [ioRooms EXCEPT ![r] = @ \ {c}]
    /\ UNCHANGED <<conn, aux>>

\* socket.on('leave-room')
LeaveRoom(c, r, u) ==
    /\ conn[c] = "open"
    /\ last' = Event("leave-room", c, r, u)
    /\ IF r \in DOMAIN rooms
       THEN LET room == [rooms[r] EXCEPT
                            !.screenSharer = ClearSharer(@, u),
                            !.participants = FilterNotId(@, u)]
            IN /\ rooms' = MapSet(rooms, r, room)
               /\ emitted' = StopIfSharer(rooms[r].screenSharer, u, IoTo(ioRooms, r))
                             \o << Emit("user-left", SocketTo(ioRooms, r, c), u, <<>>),
                                   Emit("participants-updated", IoTo(ioRooms, r), NoUser,
                                        room.participants) >>
       ELSE /\ emitted' = <<>>
            /\ UNCHANGED rooms
    /\ screenSharers' = MapDelete(screenSharers, u)
    /\ onlineUsers' = MapDelete(onlineUsers, c)
    /\ ioRooms' = [ioRooms EXCEPT ![r] = @ \ {c}]
    /\ UNCHANGED <<conn, aux>>

\* socket.on('disconnect'); socket.io has removed the socket from every io room
\* before the handler runs
Disconnect(c) ==
    /\ conn[c] = "open"
    /\ conn' = [conn EXCEPT ![c] = "closed"]
    /\ LET members == [x \in RoomIds |-> ioRooms[x] \ {c}]
       IN /\ ioRooms' = members
          /\ IF c \in DOMAIN onlineUsers
             THEN LET u == onlineUsers[c].userId
                      r == onlineUsers[c].roomId
                  IN /\ last' = Event("disconnect", c, r, u)
                     /\ IF r \in DOMAIN rooms
                        THEN LET room == [rooms[r] EXCEPT
                                            !.screenSharer = ClearSharer(@, u),
                                            !.participants = FilterNotSocket(@, c)]
                             IN /\ rooms' = MapSet(rooms, r, room)
                                /\ emitted' =
                                     StopIfSharer(rooms[r].screenSharer, u, IoTo(members, r))
                                     \o << Emit("participants-updated", IoTo(members, r),
                                                NoUser, room.participants),
                                           Emit("user-left", IoTo(members, r), u, <<>>) >>
                        ELSE /\ emitted' = <<>>
                             /\ UNCHANGED rooms
                     /\ screenSharers' = MapDelete(screenSharers, u)
                     /\ onlineUsers' = MapDelete(onlineUsers, c)
             ELSE /\ last' = Event("disconnect", c, "none", NoUser)
                  /\ emitted' = <<>>
                  /\ UNCHANGED <<rooms, screenSharers, onlineUsers>>
    /\ UNCHANGED aux

\* "time || 0"
OrZero(time) == IF time = NoTime \/ time = 0 THEN 0 ELSE time

\* a switch whose 'play' case does not move the anchor's timestamp
ApplyControlPlayKeepsAnchor(room, action, time, url, t) ==
    CASE action = "play" ->
            [room EXCEPT !.isPlaying = TRUE, !.currentTime = OrZero(time)]
      [] action = "pause" ->
            [room EXCEPT !.isPlaying = FALSE, !.currentTime = OrZero(time),
                         !.lastUpdate = t]
      [] action = "seek" ->
            [room EXCEPT !.currentTime = time, !.lastUpdate = t]
      [] action = "change-video" ->
            [room EXCEPT !.videoUrl = url, !.isPlaying = FALSE, !.currentTime = 0,
                         !.lastUpdate = t]
      [] OTHER -> room

\* a switch whose 'pause' case does not reset isPlaying
ApplyControlPauseKeepsPlaying(room, action, time, url, t) ==
    CASE action = "play" ->
            [room EXCEPT !.isPlaying = TRUE, !.currentTime = OrZero(time),
                         !.lastUpdate = t]
      [] action = "pause" ->
            [room EXCEPT !.currentTime = OrZero(time), !.lastUpdate = t]
      [] action = "seek" ->
            [room EXCEPT !.currentTime = time, !.lastUpdate = t]
      [] action = "change-video" ->
            [room EXCEPT !.videoUrl = url, !.isPlaying = FALSE, !.currentTime = 0,
                         !.lastUpdate = t]
      [] OTHER -> room

\* a switch whose 'seek' case pauses the playback
ApplyControlSeekPauses(room, action, time, url, t) ==
    CASE action = "play" ->
            [room EXCEPT !.isPlaying = TRUE, !.currentTime = OrZero(time),
                         !.lastUpdate = t]
      [] action = "pause" ->
            [room EXCEPT !.isPlaying = FALSE, !.currentTime = OrZero(time),
                         !.lastUpdate = t]
      [] action = "seek" ->
            [room EXCEPT !.isPlaying = FALSE, !.currentTime = time, !.lastUpdate = t]
      [] action = "change-video" ->
            [room EXCEPT !.videoUrl = url, !.isPlaying = FALSE, !.currentTime = 0,
                         !.lastUpdate = t]
      [] OTHER -> room

\* a switch whose 'change-video' case keeps the playback state of the old video
ApplyControlChangeKeepsPlayback(room, action, time, url, t) ==
    CASE action = "play" ->
            [room EXCEPT !.isPlaying = TRUE, !.currentTime = OrZero(time),
                         !.lastUpdate = t]
      [] action = "pause" ->
            [room EXCEPT !.isPlaying = FALSE, !.currentTime = OrZero(time),
                         !.lastUpdate = t]
      [] action = "seek" ->
            [room EXCEPT !.currentTime = time, !.lastUpdate = t]
      [] action = "change-video" ->
            [room EXCEPT !.videoUrl = url, !.lastUpdate = t]
      [] OTHER -> room

\* the switch (action) of video-control
ApplyControl(room, action, time, url, t) ==
    CASE action = "play" ->
            [room EXCEPT !.isPlaying = TRUE, !.currentTime = OrZero(time),
                         !.lastUpdate = t]
      [] action = "pause" ->
            [room EXCEPT !.isPlaying = FALSE, !.currentTime = OrZero(time),
                         !.lastUpdate = t]
      [] action = "seek" ->
            [room EXCEPT !.currentTime = time, !.lastUpdate = t]
      [] action = "change-video" ->
            [room EXCEPT !.videoUrl = url, !.isPlaying = FALSE, !.currentTime = 0,
                         !.lastUpdate = t]
      [] OTHER -> room

\* a control that is applied to every room
VideoControlEveryRoom(c, r, action, time, url) ==
    /\ conn[c] = "open"
    /\ last' = Event("video-control", c, r, NoUser)
    /\ IF r \notin DOMAIN rooms
       THEN /\ emitted' = <<>>
            /\ UNCHANGED <<rooms, control>>
       ELSE /\ rooms' = [x \in DOMAIN rooms |->
                            ApplyControl(rooms[x], action, time, url, now)]
            /\ control' = [control EXCEPT ![r] =
                              [action |-> action, time |-> time, url |-> url, at |-> now]]
            /\ emitted' = << Emit("video-update", SocketTo(ioRooms, r, c), NoUser,
                                  << [action |-> action, time |-> time, url |-> url,
                                      serverTime |-> now] >>) >>
    /\ UNCHANGED <<onlineUsers, screenSharers, conn, ioRooms, msgSeq, budget, now, ticks,
                   http>>

\* socket.on('video-control')
VideoControl(c, r, action, time, url) ==
    /\ conn[c] = "open"
    /\ last' = Event("video-control", c, r, NoUser)
    /\ IF r \notin DOMAIN rooms
       THEN /\ emitted' = <<>>
            /\ UNCHANGED <<rooms, control>>
       ELSE /\ rooms' = MapSet(rooms, r, ApplyControl(rooms[r], action, time, url, now))
            /\ control' = [control EXCEPT ![r] =
                              [action |-> action, time |-> time, url |-> url, at |-> now]]
            /\ emitted' = << Emit("video-update", SocketTo(ioRooms, r, c), NoUser,
                                  << [action |-> action, time |-> time, url |-> url,
                                      serverTime |-> now] >>) >>
    /\ UNCHANGED <<onlineUsers, screenSharers, conn, ioRooms, msgSeq, budget, now, ticks,
                   http>>

\* the clock advances between two events
Tick(d) ==
    /\ ticks < MaxTicks
    /\ now' = now + d
    /\ ticks' = ticks + 1
    /\ UNCHANGED <<rooms, onlineUsers, screenSharers, conn, ioRooms, emitted, last,
                   msgSeq, budget, control, http>>

\* estimatedPosition = positionSeconds + (isPlaying ? (now - lastUpdate)/1000 : 0),
\* in milliseconds
EstimatedPositionMs(room, t) ==
    room.currentTime * 1000 + (IF room.isPlaying THEN t - room.lastUpdate ELSE 0)

\* ------------------------------------------------------------- HTTP routes
\* the variables of the socket handlers
sockets == <<onlineUsers, screenSharers, conn, ioRooms, msgSeq, budget, control,
             now, ticks>>

\* an HTTP request is an event of its own and emits nothing to the sockets
Route(route, userId, roomId) ==
    /\ last' = Event(route, "none", roomId, userId)
    /\ emitted' = <<>>

Request(route, userId, roomId, password) ==
    [route |-> route, userId |-> userId, roomId |-> roomId, password |-> password]

\* res.status(code).json(...); rooms: the rooms carried in the body
Response(status, body) == [status |-> status, rooms |-> body]

\* users.values().find(u => u.email === email)
EmailTaken(accounts, email) ==
    \E u \in DOMAIN accounts : accounts[u].email = email

\* app.post('/api/register'), up to "await bcrypt.hash": the email check and
\* the new user id
RegisterBegin(u, email) ==
    /\ u \notin (DOMAIN users) \cup (DOMAIN pending)
    /\ Route("POST /api/register", NoUser, "none")
    /\ request' = Request("POST /api/register", NoUser, "none", NoPassword)
    /\ IF EmailTaken(users, email)
       THEN /\ response' = Response(400, {})
            /\ UNCHANGED pending
       ELSE /\ pending' = MapSet(pending, u, email)
            /\ response' = NoResponse
    /\ UNCHANGED <<rooms, users, minted, sockets>>

\* app.post('/api/register'), after the hash: the account is stored and the
\* session is opened
RegisterEnd(u) ==
    /\ u \in DOMAIN pending
    /\ users' = MapSet(users, u, [email |-> pending[u], rooms |-> <<>>])
    /\ pending' = MapDelete(pending, u)
    /\ Route("POST /api/register", u, "none")
    /\ request' = Request("POST /api/register", u, "none", NoPassword)
    /\ response' = Response(200, {})
    /\ UNCHANGED <<rooms, minted, sockets>>

\* the users a session can belong to (sessions are opened by register and
\* login), and NoUser for a request without a session
Callers == (DOMAIN users) \cup {NoUser}

\* requireAuth
Authorized(u) == u # NoUser /\ u \in DOMAIN users

\* app.post('/api/create-room')
CreateRoom(u, r, isPrivate, password) ==
    /\ u \in Callers
    /\ r \notin minted
    /\ Route("POST /api/create-room", u, "none")
    /\ request' = Request("POST /api/create-room", u, "none", password)
    /\ IF ~ Authorized(u)
       THEN /\ response' = Response(401, {})
            /\ UNCHANGED <<rooms, users, minted>>
       ELSE LET room == NewRoom(u, "v1", isPrivate,
                                IF isPrivate THEN password ELSE NoPassword, now)
            IN /\ rooms' = MapSet(rooms, r, room)
               /\ users' = MapSet(users, u,
                              [users[u] EXCEPT !.rooms = Append(@, r)])
               /\ minted' = minted \cup {r}
               /\ response' = Response(200, {r})
    /\ UNCHANGED <<pending, sockets>>

\* a delete that lets any authenticated user remove a room
DeleteStatusAnyUser(roomsMap, roomId, userId) ==
    IF roomId \notin DOMAIN roomsMap THEN 404 ELSE 200

\* the status of app.delete('/api/room/:id')
DeleteStatus(roomsMap, roomId, userId) ==
    IF roomId \notin DOMAIN roomsMap THEN 404
    ELSE IF roomsMap[roomId].hostId # userId THEN 403
    ELSE 200

\* a cascade that empties the membership list
FilterNotRoomClearsList(roomList, roomId) == <<>>

\* user.rooms.filter(id => id !== roomId)
FilterNotRoom(roomList, roomId) ==
    LET keep(id) == id # roomId IN SelectSeq(roomList, keep)

\* app.delete('/api/room/:id')
DeleteRoom(u, r) ==
    /\ u \in Callers
    /\ Route("DELETE /api/room/:id", u, r)
    /\ request' = Request("DELETE /api/room/:id", u, r, NoPassword)
    /\ IF ~ Authorized(u)
       THEN /\ response' = Response(401, {})
            /\ UNCHANGED <<rooms, users>>
       ELSE /\ response' = Response(DeleteStatus(rooms, r, u), {})
            /\ IF DeleteStatus(rooms, r, u) = 200
               THEN /\ rooms' = MapDelete(rooms, r)
                    /\ users' = [x \in DOMAIN users |->
                                   [users[x] EXCEPT !.rooms = FilterNotRoom(@, r)]]
               ELSE UNCHANGED <<rooms, users>>
    /\ UNCHANGED <<pending, minted, sockets>>

\* a gate that admits nobody but the host to a private room
RoomAccessHostOnly(room, userId, providedPassword) ==
    IF room.isPrivate /\ room.hostId # userId THEN 403 ELSE 200

\* the private-room gate of app.get('/api/room/:id')
RoomAccess(room, userId, providedPassword) ==
    IF room.isPrivate /\ room.hostId # userId
    THEN IF providedPassword = NoPassword \/ providedPassword # room.password
         THEN 403 ELSE 200
    ELSE 200

\* app.get('/api/room/:id')
GetRoom(u, r, password) ==
    /\ u \in Callers
    /\ Route("GET /api/room/:id", u, r)
    /\ request' = Request("GET /api/room/:id", u, r, password)
    /\ response' =
          IF ~ Authorized(u) THEN Response(401, {})
          ELSE IF r \notin DOMAIN rooms THEN Response(404, {})
          ELSE IF RoomAccess(rooms[r], u, password) = 403 THEN Response(403, {})
          ELSE Response(200, {r})
    /\ UNCHANGED <<rooms, users, pending, minted, sockets>>

\* parseInt(req.query.limit) || 100
HistoryLimit == 100

\* the limit argument of a messages query as the characters of the query
\* string (<<>>: the argument is absent)
Limits == { <<>>, <<"0">>, <<"1">>, <<"3">>, <<"1", "0", "0">>, <<"1", "5", "0">>,
            <<"-", "2">>, <<"a">>, <<"3", "x">> }

DigitValue ==
    [ch \in {"0", "1", "2", "3", "4", "5", "6", "7", "8", "9"} |->
        CASE ch = "0" -> 0 [] ch = "1" -> 1 [] ch = "2" -> 2 [] ch = "3" -> 3
          [] ch = "4" -> 4 [] ch = "5" -> 5 [] ch = "6" -> 6 [] ch = "7" -> 7
          [] ch = "8" -> 8 [] ch = "9" -> 9]

NaN == [nan |-> TRUE, value |-> 0]

\* the value of the longest prefix of decimal digits
RECURSIVE ParseDigits(_, _)
ParseDigits(s, acc) ==
    IF s # <<>> /\ Head(s) \in DOMAIN DigitValue
    THEN ParseDigits(Tail(s), acc * 10 + DigitValue[Head(s)])
    ELSE acc

\* parseInt(string) in radix 10: leading white space, a sign, then digits up
\* to the first other character; NaN when there is no digit
ParseInt(s) ==
    LET t == TrimStart(s)
        signed == t # <<>> /\ Head(t) \in {"-", "+"}
        digits == IF signed THEN Tail(t) ELSE t
    IN IF digits = <<>> \/ Head(digits) \notin DOMAIN DigitValue THEN NaN
       ELSE [nan |-> FALSE,
             value |-> (IF signed /\ Head(t) = "-" THEN -1 ELSE 1) * ParseDigits(digits, 0)]

\* "n || fallback" for a number n: NaN and 0 are falsy
OrDefault(n, fallback) == IF n.nan \/ n.value = 0 THEN fallback ELSE n.value

\* a slice that counts from the oldest entry
SliceOldest(s, start) ==
    LET n == IF start < 0 THEN -start ELSE Len(s) - start
    IN SubSeq(s, 1, IF n > Len(s) THEN Len(s) ELSE IF n < 0 THEN 0 ELSE n)

\* Array.prototype.slice(start): a negative start counts from the end
Slice(s, start) ==
    LET from == IF start < 0
                THEN (IF Len(s) + start < 0 THEN 0 ELSE Len(s) + start)
                ELSE (IF start > Len(s) THEN Len(s) ELSE start)
    IN SubSeq(s, from + 1, Len(s))

RequestMessages(userId, roomId, limit) ==
    [route |-> "GET /api/room/:id/messages", userId |-> userId, roomId |-> roomId,
     password |-> NoPassword, limit |-> limit]

\* res.json({ success: true, messages })
ResponseMessages(messages) == [status |-> 200, rooms |-> {}, messages |-> messages]

\* app.get('/api/room/:id/messages')
GetMessages(u, r, limit) ==
    /\ u \in Callers
    /\ Route("GET /api/room/:id/messages", u, r)
    /\ request' = RequestMessages(u, r, limit)
    /\ response' =
          IF ~ Authorized(u) THEN Response(401, {})
          ELSE IF r \notin DOMAIN rooms THEN Response(404, {})
          ELSE ResponseMessages(
                  Slice(rooms[r].messages, - OrDefault(ParseInt(limit), HistoryLimit)))
    /\ UNCHANGED <<rooms, users, pending, minted, sockets>>

\* room ids the HTTP routes can mint
HttpRoomIds == RoomIds \cup {"r2"}

\* the order in which rooms.forEach visits the ids (the order of the entries in
\* a room list is not part of what is modelled)
RoomOrder == <<DemoRoom, "r1", "r2">>

\* the first loop of GET /api/rooms: the caller's rooms that still exist
OwnRooms(roomList, roomsMap) ==
    LET exists(id) == id \in DOMAIN roomsMap IN SelectSeq(roomList, exists)

\* the second loop: "if (!room.isPrivate && room.hostId !== userId)"
PublicRoomsOfOthers(roomsMap, userId) ==
    LET listed(id) == /\ id \in DOMAIN roomsMap
                      /\ ~ roomsMap[id].isPrivate
                      /\ roomsMap[id].hostId # userId
    IN SelectSeq(RoomOrder, listed)

\* res.json({ success: true, rooms: userRooms })
ResponseList(userRooms) == [status |-> 200, rooms |-> {}, list |-> userRooms]

\* app.get('/api/rooms')
ListRooms(u) ==
    /\ u \in Callers
    /\ Route("GET /api/rooms", u, "none")
    /\ request' = Request("GET /api/rooms", u, "none", NoPassword)
    /\ response' =
          IF ~ Authorized(u) THEN Response(401, {})
          ELSE ResponseList(OwnRooms(users[u].rooms, rooms)
                            \o PublicRoomsOfOthers(rooms, u))
    /\ UNCHANGED <<rooms, users, pending, minted, sockets>>

\* ------------------------------------------------------------ specifications
\* roster and screen-share events
Next ==
    \/ \E c \in SocketIds : Connect(c)
    \/ \E c \in SocketIds, r \in RoomIds, u \in UserIds : JoinRoom(c, r, u)
    \/ \E c \in SocketIds, r \in RoomIds, u \in UserIds : ScreenShareStart(c, r, u)
    \/ \E c \in SocketIds, r \in RoomIds, u \in UserIds : ScreenShareStop(c, r, u)
    \/ \E c \in SocketIds, r \in RoomIds, u \in UserIds : LeaveRoom(c, r, u)
    \/ \E c \in SocketIds : Disconnect(c)

Spec == Init /\ [][Next]_vars

\* a log of n messages posted earlier to the demo room by a user who has left
Backlog(n) == [i \in 1..n |-> [id |-> i, userId |-> DemoUser, message |-> <<"h", "i">>]]

\* lengths of the backlog at which the capacity check is exercised
BacklogLens == {0, MessageCap - 1}

\* the state after construction and n earlier messages, n drawn from lens
InitBacklog(lens) ==
    /\ \E n \in lens :
          /\ rooms = [r \in {DemoRoom} |->
                        [NewRoom(DemoUser, "v1", FALSE, "none", 0)
                            EXCEPT !.messages = Backlog(n)]]
          /\ msgSeq = n
    /\ onlineUsers = [c \in {} |-> NoSharer]
    /\ screenSharers = [u \in {} |-> NoSharer]
    /\ conn = [c \in SocketIds |-> "new"]
    /\ ioRooms = [r \in RoomIds |-> {}]
    /\ emitted = <<>>
    /\ last = Event("init", "none", "none", NoUser)
    /\ budget = MaxSends
    /\ control = [r \in RoomIds |-> NoControl]
    /\ now = 0
    /\ ticks = 0
    /\ users = [u \in {DemoUser} |-> [email |-> DemoEmail, rooms |-> <<>>]]
    /\ pending = [u \in {} |-> DemoEmail]
    /\ minted = {DemoRoom}
    /\ request = NoRequest
    /\ response = NoResponse

InitChat == InitBacklog(BacklogLens)

\* roster and chat events, from a log that may be near its capacity
NextChat ==
    \/ \E c \in SocketIds : Connect(c)
    \/ \E c \in SocketIds, r \in RoomIds, u \in UserIds : JoinRoom(c, r, u)
    \/ \E c \in SocketIds, r \in RoomIds, u \in UserIds : SendMessage(c, r, u, ChatBody)
    \/ \E c \in SocketIds, r \in RoomIds, u \in UserIds : LeaveRoom(c, r, u)
    \/ \E c \in SocketIds : Disconnect(c)

SpecChat == InitChat /\ [][NextChat]_vars

\* lengths of the backlog at which the snapshot of join-room is cut
SnapshotLens == {0, SnapshotLimit + 1}

InitSnapshot == InitBacklog(SnapshotLens)

\* roster and chat events, from a log longer than a snapshot
SpecSnapshot == InitSnapshot /\ [][NextChat]_vars

\* playback events under an advancing clock
NextPlayback ==
    \/ \E c \in SocketIds : Connect(c)
    \/ \E c \in SocketIds : JoinRoom(c, DemoRoom, DemoUser)
    \/ \E c \in SocketIds, r \in RoomIds, d \in Controls :
          VideoControl(c, r, d.action, d.time, d.url)
    \/ \E d \in TickSteps : Tick(d)

SpecPlayback == Init /\ [][NextPlayback]_vars

\* accounts and the room routes
NextHttp ==
    \/ \E u \in UserIds, e \in Emails \cup {DemoEmail} : RegisterBegin(u, e)
    \/ \E u \in UserIds : RegisterEnd(u)
    \/ \E u \in UserIds \cup {NoUser}, r \in RoomIds, p \in BOOLEAN,
          pw \in Passwords \cup {NoPassword} : CreateRoom(u, r, p, pw)
    \/ \E u \in UserIds \cup {NoUser}, r \in RoomIds : DeleteRoom(u, r)
    \/ \E u \in UserIds \cup {NoUser}, r \in RoomIds, pw \in Passwords \cup {NoPassword} :
          GetRoom(u, r, pw)

SpecHttp == Init /\ [][NextHttp]_vars

\* lengths of the stored log around the limits of a messages query
HistoryLens == {0, 2, SnapshotLimit + 1}

InitHistory == InitBacklog(HistoryLens)

\* chat events and messages queries
NextHistory ==
    \/ \E c \in SocketIds : Connect(c)
    \/ \E c \in SocketIds : JoinRoom(c, DemoRoom, DemoUser)
    \/ \E c \in SocketIds : SendMessage(c, DemoRoom, DemoUser, ChatBody)
    \/ \E u \in UserIds \cup {NoUser}, r \in RoomIds, l \in Limits : GetMessages(u, r, l)

SpecHistory == InitHistory /\ [][NextHistory]_vars

\* accounts, creation and deletion of rooms, and the room list
NextCatalog ==
    \/ \E u \in UserIds : RegisterBegin(u, "e1")
    \/ \E u \in UserIds : RegisterEnd(u)
    \/ \E u \in UserIds \cup {NoUser}, r \in HttpRoomIds, p \in BOOLEAN :
          CreateRoom(u, r, p, "abc123")
    \/ \E u \in UserIds \cup {NoUser}, r \in HttpRoomIds : DeleteRoom(u, r)
    \/ \E u \in UserIds \cup {NoUser} : ListRooms(u)

SpecCatalog == Init /\ [][NextCatalog]_vars

\* the user each connection acts for
Client == [c \in SocketIds |-> IF c = "c1" THEN "u1" ELSE "u2"]

\* socket events of clients that each act for one user, for rooms that exist,
\* that never existed ("r1") or that their host has deleted
NextLifecycle ==
    \/ \E c \in SocketIds : Connect(c)
    \/ \E c \in SocketIds : JoinRoom(c, DemoRoom, Client[c])
    \/ \E r \in RoomIds : SendMessage("c1", r, Client["c1"], ChatBody)
    \/ \E r \in RoomIds : VideoControl("c1", r, "play", 10, NoUrl)
    \/ \E c \in SocketIds, r \in RoomIds : ScreenShareStart(c, r, Client[c])
    \/ \E c \in SocketIds, r \in RoomIds : ScreenShareStop(c, r, Client[c])
    \/ \E c \in SocketIds, r \in RoomIds : LeaveRoom(c, r, Client[c])
    \/ \E c \in SocketIds : Disconnect(c)
    \/ \E u \in UserIds \cup {NoUser}, r \in RoomIds : DeleteRoom(u, r)

SpecLifecycle == Init /\ [][NextLifecycle]_vars

\* user ids named in roster events
RosterUserIds == UserIds \cup {"u3"}

\* joins and leaves of three users in the demo room
NextRoster ==
    \/ \E c \in SocketIds : Connect(c)
    \/ \E c \in SocketIds, u \in RosterUserIds : JoinRoom(c, DemoRoom, u)
    \/ \E c \in SocketIds, u \in RosterUserIds : LeaveRoom(c, DemoRoom, u)
    \/ \E c \in SocketIds : Disconnect(c)

SpecRoster == Init /\ [][NextRoster]_vars

\* every kind of socket event over the demo room and a second room made by the
\* demo user: connection c1 acts in both rooms, c2 watches the demo room
NextRelay ==
    \/ CreateRoom(DemoUser, "r1", FALSE, NoPassword)
    \/ \E c \in SocketIds : Connect(c)
    \/ \E r \in RoomIds : JoinRoom("c1", r, Client["c1"])
    \/ JoinRoom("c2", DemoRoom, Client["c2"])
    \/ \E r \in RoomIds : VideoControl("c1", r, "play", 10, NoUrl)
    \/ SendMessage("c1", DemoRoom, Client["c1"], ChatBody)
    \/ ScreenShareStart("c1", DemoRoom, Client["c1"])
    \/ ScreenShareStop("c1", DemoRoom, Client["c1"])
    \/ \E c \in SocketIds, u \in UserIds, f \in Frames : ScreenFrame(c, DemoRoom, u, f)
    \/ \E r \in RoomIds : LeaveRoom("c1", r, Client["c1"])
    \/ \E c \in SocketIds : Disconnect(c)
    \/ Tick(5000)

SpecRelay == Init /\ [][NextRelay]_vars

\* message bodies with outer and inner white space, and the empty body
TrimBodies == Bodies \cup { <<>>, <<" ", "h", " ", "i">> }

\* chat of two participants of the demo room, over bodies of every shape
NextTrim ==
    \/ \E c \in SocketIds : Connect(c)
    \/ \E c \in SocketIds : JoinRoom(c, DemoRoom, Client[c])
    \/ \E c \in SocketIds, b \in TrimBodies : SendMessage(c, DemoRoom, Client[c], b)

SpecTrim == Init /\ [][NextTrim]_vars

\* joins, leaves and disconnects of a host and a guest over the demo room and
\* a second room, public or private, made by the demo user
NextAccess ==
    \/ \E p \in BOOLEAN : CreateRoom(DemoUser, "r1", p, "abc123")
    \/ \E c \in SocketIds : Connect(c)
    \/ \E c \in SocketIds, r \in RoomIds : JoinRoom(c, r, Client[c])
    \/ \E c \in SocketIds, r \in RoomIds : LeaveRoom(c, r, Client[c])
    \/ \E c \in SocketIds : Disconnect(c)

SpecAccess == Init /\ [][NextAccess]_vars

\* user ids that register requests can generate
AccountIds == {"u2", "u3", "u4"}

\* register requests that interleave at their await
NextRegister ==
    \/ \E u \in AccountIds, e \in Emails \cup {DemoEmail} : RegisterBegin(u, e)
    \/ \E u \in AccountIds : RegisterEnd(u)

SpecRegister == Init /\ [][NextRegister]_vars

\* ------------------------------------------------------------------ claims
\* indices of the rows of userId in a roster
RowsOf(participants, userId) ==
    {i \in 1..Len(participants) : participants[i].id = userId}

\* indices of the rows flagged as sharing
SharingRows(participants) ==
    {i \in 1..Len(participants) : participants[i].isSharingScreen}

\* the receiving-socket sets of the emissions of the given kinds
Receivers(emissions, events) ==
    UNION {emissions[i].to : i \in {j \in 1..Len(emissions) : emissions[j].event \in events}}

\* C1: in every room at most one participant row has isSharingScreen = true,
\* and when one does, its user id equals room.screenSharer.userId.
C1_SingleSharingRow ==
    \A r \in DOMAIN rooms :
        LET P == rooms[r].participants
        IN /\ Cardinality(SharingRows(P)) <= 1
           /\ \A i \in SharingRows(P) : rooms[r].screenSharer.userId = P[i].id

\* C2: when A and B both have a row in room R and A's screen-share-start is
\* followed by B's screen-share-start, afterwards R.screenSharer.userId = B and
\* A's row has isSharingScreen = false.
C2_Preemption ==
    [][ \A r \in DOMAIN rooms, a \in UserIds, b \in UserIds :
          ( /\ a # b
            /\ RowsOf(rooms[r].participants, a) # {}
            /\ RowsOf(rooms[r].participants, b) # {}
            /\ last.name = "screen-share-start" /\ last.roomId = r /\ last.userId = a
            /\ last'.name = "screen-share-start" /\ last'.roomId = r /\ last'.userId = b )
          => /\ rooms'[r].screenSharer.userId = b
             /\ \A i \in RowsOf(rooms'[r].participants, a) :
                   ~ rooms'[r].participants[i].isSharingScreen ]_vars

\* C3: room.screenSharer is non-null only if its userId has a row in
\* room.participants and that row has isSharingScreen = true.
C3_SharerIsFlaggedParticipant ==
    \A r \in DOMAIN rooms :
        rooms[r].screenSharer # NoSharer =>
            \E i \in RowsOf(rooms[r].participants, rooms[r].screenSharer.userId) :
                rooms[r].participants[i].isSharingScreen

\* C4: after any send-message has been handled, room.messages.length <= 1000
\* in every room.
C4_MessageCap ==
    \A r \in DOMAIN rooms : Len(rooms[r].messages) <= MessageCap

\* an accepted send-message was handled last, and it was the one that took the
\* count of posted messages past the cap
C4_Witness ==
    /\ last.name = "send-message"
    /\ Len(emitted) = 1
    /\ msgSeq = MessageCap + 1
    /\ rooms[DemoRoom].messages[Len(rooms[DemoRoom].messages)].id = msgSeq

\* C5 as claimed: when an accepted send-message would bring the stored count
\* above 1000, the resulting log is the 500 most recent previously stored
\* messages followed by the new one.
C5_TruncateThenAppend ==
    [][ \A r \in DOMAIN rooms :
          ( /\ last'.name = "send-message" /\ last'.roomId = r
            /\ msgSeq' = msgSeq + 1
            /\ Len(rooms[r].messages) + 1 > MessageCap )
          => rooms'[r].messages =
                SubSeq(rooms[r].messages, Len(rooms[r].messages) - MessageKeep + 1,
                       Len(rooms[r].messages))
                \o << emitted'[1].payload[1] >> ]_vars

\* C5 amended: when an accepted send-message brings the stored count above
\* 1000, the resulting log has 500 entries: the 499 most recent previously
\* stored messages followed by the new one.
C5_AppendThenTruncate ==
    [][ \A r \in DOMAIN rooms :
          ( /\ last'.name = "send-message" /\ last'.roomId = r
            /\ msgSeq' = msgSeq + 1
            /\ Len(rooms[r].messages) + 1 > MessageCap )
          => /\ Len(rooms'[r].messages) = MessageKeep
             /\ rooms'[r].messages =
                   SubSeq(rooms[r].messages, Len(rooms[r].messages) - MessageKeep + 2,
                          Len(rooms[r].messages))
                   \o << emitted'[1].payload[1] >> ]_vars

\* the 1001st message has just been accepted and the log was cut
C5_Witness ==
    /\ last.name = "send-message"
    /\ Len(emitted) = 1
    /\ msgSeq = MessageCap + 1
    /\ Len(rooms[DemoRoom].messages) < MessageCap
    /\ rooms[DemoRoom].messages[1].id > 1

\* C6: a join-room for a (roomId, userId) that already has a row leaves
\* room.participants as it was (the first row stays, same position, same
\* socketId), and the room holds exactly one row for that user.
C6_JoinIdempotent ==
    [][ \A r \in DOMAIN rooms, u \in UserIds :
          ( /\ last'.name = "join-room" /\ last'.roomId = r /\ last'.userId = u
            /\ RowsOf(rooms[r].participants, u) # {} )
          => /\ rooms'[r].participants = rooms[r].participants
             /\ Cardinality(RowsOf(rooms'[r].participants, u)) = 1 ]_vars

\* a second join of the same user arrived from another connection than the
\* one recorded in the user's row
C6_Witness ==
    /\ last.name = "join-room"
    /\ last.roomId \in DOMAIN rooms
    /\ \E i \in RowsOf(rooms[last.roomId].participants, last.userId) :
          rooms[last.roomId].participants[i].socketId # last.socketId
    /\ Len(rooms[last.roomId].participants) = 2

\* C7: a second leave-room for the same (roomId, userId) right after a first
\* one leaves the rooms unchanged and emits no user-left and no
\* participants-updated to any connection.
C7_SecondLeaveNoOp ==
    [][ \A r \in DOMAIN rooms, u \in UserIds :
          ( /\ last.name = "leave-room" /\ last.roomId = r /\ last.userId = u
            /\ last'.name = "leave-room" /\ last'.roomId = r /\ last'.userId = u )
          => /\ rooms' = rooms
             /\ Receivers(emitted', {"user-left", "participants-updated"}) = {} ]_vars

\* C8: when connections c1 (older) and c2 (newer) have both joined room R as
\* user U, the disconnect of c1 while c2 is still connected does not evict U
\* from R.participants.
C8_StaleDisconnectKeepsUser ==
    [][ \A r \in DOMAIN rooms, u \in UserIds, c1 \in SocketIds, c2 \in SocketIds :
          ( /\ c1 # c2
            /\ last = Event("join-room", c2, r, u)
            /\ c1 \in DOMAIN onlineUsers
            /\ onlineUsers[c1] = [userId |-> u, roomId |-> r]
            /\ last'.name = "disconnect" /\ last'.socketId = c1
            /\ conn'[c2] = "open" )
          => RowsOf(rooms'[r].participants, u) # {} ]_vars

\* C9: a send-message whose userId has no row in the room is rejected:
\* room.messages is unchanged and no new-message is emitted.
C9_SenderNotInRoom ==
    [][ \A r \in DOMAIN rooms, u \in UserIds :
          ( /\ last'.name = "send-message" /\ last'.roomId = r /\ last'.userId = u
            /\ RowsOf(rooms[r].participants, u) = {} )
          => /\ rooms'[r].messages = rooms[r].messages
             /\ \A i \in 1..Len(emitted') : emitted'[i].event # "new-message" ]_vars

\* a user who posted earlier and has no row any more had a send-message
\* rejected while another connection sits in the room
C9_Witness ==
    /\ last.name = "send-message"
    /\ last.roomId = DemoRoom
    /\ RowsOf(rooms[DemoRoom].participants, last.userId) = {}
    /\ \E i \in 1..Len(rooms[DemoRoom].messages) :
          /\ rooms[DemoRoom].messages[i].userId = last.userId
          /\ rooms[DemoRoom].messages[i].id = msgSeq
    /\ ioRooms[DemoRoom] # {}
    /\ emitted = <<>>

\* C10: once 'pause' with time 42 was the last control applied to a room, the
\* extrapolated position is 42 seconds at every later clock value.
C10_NoDriftWhilePaused ==
    \A r \in DOMAIN rooms :
        (control[r].action = "pause" /\ control[r].time = 42)
            => EstimatedPositionMs(rooms[r], now) = 42 * 1000

\* the pause at 42 was applied, and the clock has advanced by 5 s or more since
C10_Witness ==
    /\ control[DemoRoom].action = "pause"
    /\ control[DemoRoom].time = 42
    /\ now >= control[DemoRoom].at + 5000

\* positions in an emission sequence of the emissions of one kind
Positions(emissions, event) ==
    {i \in 1..Len(emissions) : emissions[i].event = event}

\* C11: once 'play' with time 10 was the last control applied to a room at
\* server time T, the stored anchor is (isPlaying = true, currentTime = 10,
\* lastUpdate = T) and the extrapolated position at T + 5000 ms is 15 seconds.
C11_PlayAnchor ==
    \A r \in DOMAIN rooms :
        (control[r].action = "play" /\ control[r].time = 10)
            => /\ rooms[r].isPlaying
               /\ rooms[r].currentTime = 10
               /\ rooms[r].lastUpdate = control[r].at
               /\ now = control[r].at + 5000
                     => EstimatedPositionMs(rooms[r], now) = 15 * 1000

\* play at 10 was applied after the clock had moved, and 5000 ms have passed since
C11_Witness ==
    /\ control[DemoRoom].action = "play"
    /\ control[DemoRoom].time = 10
    /\ control[DemoRoom].at > 0
    /\ now = control[DemoRoom].at + 5000

\* C12: a 'play' or 'pause' video-control without a time keeps the room's
\* current position, and one with a time (including 0) sets the position to
\* exactly that time.
C12_PositionCapture ==
    [][ \A r \in DOMAIN rooms :
          ( /\ last'.name = "video-control" /\ last'.roomId = r
            /\ control'[r].action \in {"play", "pause"} )
          => IF control'[r].time = NoTime
             THEN rooms'[r].currentTime = rooms[r].currentTime
             ELSE rooms'[r].currentTime = control'[r].time ]_vars

\* C15: a screen-share-stop leaves room.screenSharer unchanged when the slot
\* is empty or held by another user, and clears it when it is held by the
\* userId of the stop.
C15_StaleStopKeepsSharer ==
    [][ \A r \in DOMAIN rooms :
          ( last'.name = "screen-share-stop" /\ last'.roomId = r )
          => IF rooms[r].screenSharer.userId = last'.userId
             THEN rooms'[r].screenSharer = NoSharer
             ELSE rooms'[r].screenSharer = rooms[r].screenSharer ]_vars

\* a stop from a user who is not the sharer was handled and the sharer is
\* still in place
C15_Witness ==
    /\ last.name = "screen-share-stop"
    /\ last.roomId = DemoRoom
    /\ rooms[DemoRoom].screenSharer # NoSharer
    /\ rooms[DemoRoom].screenSharer.userId # last.userId
    /\ RowsOf(rooms[DemoRoom].participants, last.userId) # {}

\* C16: a screen-share-stop from a user who is not the current sharer emits no
\* screen-share-stop event.
C16_StopBroadcastOnlyForOwner ==
    [][ \A r \in DOMAIN rooms :
          ( /\ last'.name = "screen-share-stop" /\ last'.roomId = r
            /\ rooms[r].screenSharer.userId # last'.userId )
          => Positions(emitted', "screen-share-stop") = {} ]_vars

\* C17: when the user leaving by leave-room or disconnect is the current
\* sharer, room.screenSharer is cleared and a screen-share-stop is emitted
\* before the user-left of the same event; otherwise screenSharer is unchanged
\* and no screen-share-stop is emitted.
C17_StopBeforeLeft ==
    [][ \A r \in DOMAIN rooms :
          ( last'.name \in {"leave-room", "disconnect"} /\ last'.roomId = r )
          => IF rooms[r].screenSharer.userId = last'.userId
             THEN /\ rooms'[r].screenSharer = NoSharer
                  /\ Cardinality(Positions(emitted', "screen-share-stop")) = 1
                  /\ \A i \in Positions(emitted', "screen-share-stop"),
                        j \in Positions(emitted', "user-left") : i < j
                  /\ Positions(emitted', "user-left") # {}
             ELSE /\ rooms'[r].screenSharer = rooms[r].screenSharer
                  /\ Positions(emitted', "screen-share-stop") = {} ]_vars

\* the sharer's connection dropped while another connection was in the room:
\* the stop went out first
C17_Witness ==
    /\ last.name = "disconnect"
    /\ last.roomId = DemoRoom
    /\ Len(emitted) = 3
    /\ emitted[1].event = "screen-share-stop"
    /\ emitted[1].userId = last.userId
    /\ emitted[1].to # {}
    /\ rooms[DemoRoom].screenSharer = NoSharer

\* C18: a successful join-room emits exactly one room-state (full roster, at
\* most the 100 most recent messages, playback state, current sharer) to the
\* joining connection only, one user-joined to every other connection of the
\* room, and one participants-updated to every connection of the room
\* including the joiner.
C18_JoinEffects ==
    [][ \A r \in DOMAIN rooms :
          ( last'.name = "join-room" /\ last'.roomId = r )
          => LET c == last'.socketId
                 room == rooms'[r]
                 n == Len(room.messages)
                 k == IF n > SnapshotLimit THEN SnapshotLimit ELSE n
             IN /\ Len(emitted') = 3
                /\ \E i \in Positions(emitted', "room-state") :
                      /\ Positions(emitted', "room-state") = {i}
                      /\ emitted'[i].to = {c}
                      /\ emitted'[i].payload[1].participants = room.participants
                      /\ emitted'[i].payload[1].messages =
                            [x \in 1..k |-> room.messages[n - k + x]]
                      /\ emitted'[i].payload[1].videoState =
                            [ url |-> room.videoUrl, isPlaying |-> room.isPlaying,
                              currentTime |-> room.currentTime,
                              lastUpdate |-> room.lastUpdate ]
                      /\ emitted'[i].payload[1].screenSharer = room.screenSharer
                /\ \E i \in Positions(emitted', "user-joined") :
                      /\ Positions(emitted', "user-joined") = {i}
                      /\ emitted'[i].to = ioRooms[r] \ {c}
                      /\ emitted'[i].userId = last'.userId
                /\ \E i \in Positions(emitted', "participants-updated") :
                      /\ Positions(emitted', "participants-updated") = {i}
                      /\ emitted'[i].to = ioRooms[r] \cup {c}
                      /\ emitted'[i].payload = room.participants ]_vars

\* a connection joined a room that already had another connection and more
\* than 100 stored messages
C18_Witness ==
    /\ last.name = "join-room"
    /\ last.roomId = DemoRoom
    /\ Len(rooms[DemoRoom].messages) > SnapshotLimit
    /\ Cardinality(ioRooms[DemoRoom]) = 2
    /\ Len(emitted) = 3
    /\ emitted[1].to # {}

\* C19: every video-control handled for an existing room is emitted as one
\* video-update to all other connections of the room and not to the sender,
\* and its serverTime equals the lastUpdate the room holds after that control.
C19_ControlBroadcast ==
    [][ \A r \in DOMAIN rooms :
          ( last'.name = "video-control" /\ last'.roomId = r )
          => /\ Len(emitted') = 1
             /\ emitted'[1].event = "video-update"
             /\ emitted'[1].to = ioRooms[r] \ {last'.socketId}
             /\ emitted'[1].payload[1].serverTime = rooms'[r].lastUpdate ]_vars

\* C13: delete(R) by the user equal to R.hostId removes R; delete(R) by any
\* other user answers 403 and leaves the rooms and every user's membership
\* list unchanged; delete of an unknown id answers 404.
C13_DeleteOnlyByHost ==
    [][ \A r \in RoomIds, u \in DOMAIN users :
          ( /\ last' = Event("DELETE /api/room/:id", "none", r, u)
            /\ ticks' = ticks )
          => IF r \notin DOMAIN rooms
             THEN response'.status = 404 /\ rooms' = rooms /\ users' = users
             ELSE IF rooms[r].hostId = u
             THEN response'.status = 200 /\ r \notin DOMAIN rooms'
             ELSE response'.status = 403 /\ rooms' = rooms /\ users' = users ]_vars

\* a user who is not the host was refused, and the room is still in its
\* host's membership list
C13_Witness ==
    /\ request.route = "DELETE /api/room/:id"
    /\ response.status = 403
    /\ request.roomId \in DOMAIN rooms
    /\ rooms[request.roomId].hostId # request.userId
    /\ \E i \in 1..Len(users[rooms[request.roomId].hostId].rooms) :
          users[rooms[request.roomId].hostId].rooms[i] = request.roomId

\* C14: for a private room with a secret, a non-host query with no secret or
\* a non-matching secret answers 403, a query with the matching secret
\* succeeds, and a query by the host succeeds whatever secret is supplied;
\* a public room is returned to any authenticated caller.
C14_PrivateRoomGate ==
    [][ \A r \in DOMAIN rooms, u \in DOMAIN users, pw \in Passwords \cup {NoPassword} :
          ( /\ last' = Event("GET /api/room/:id", "none", r, u)
            /\ request' = Request("GET /api/room/:id", u, r, pw)
            /\ ticks' = ticks )
          => /\ (rooms[r].isPrivate /\ rooms[r].password # NoPassword)
                  => response'.status =
                        IF u = rooms[r].hostId \/ pw = rooms[r].password
                        THEN 200 ELSE 403
             /\ ~ rooms[r].isPrivate => response'.status = 200
             /\ response'.status = 200 => response'.rooms = {r} ]_vars

\* a user who is not the host obtained a private room with the matching secret
C14_Witness ==
    /\ request.route = "GET /api/room/:id"
    /\ response.status = 200
    /\ request.roomId \in DOMAIN rooms
    /\ rooms[request.roomId].isPrivate
    /\ rooms[request.roomId].hostId # request.userId
    /\ request.password = rooms[request.roomId].password

\* the numeric value of the limit arguments that are positive integers
PositiveLimit ==
    (<<"1">> :> 1) @@ (<<"3">> :> 3) @@ (<<"1", "0", "0">> :> 100)
    @@ (<<"1", "5", "0">> :> 150)

\* the k most recent entries of a log, oldest first
MostRecent(messages, k) ==
    LET n == Len(messages)
        m == IF k < n THEN k ELSE n
    IN [x \in 1..m |-> messages[n - m + x]]

\* C22: a messages query of an existing room returns the most recent
\* min(limit, stored count) messages in stored order for every positive
\* limit, the most recent min(100, stored count) when no limit is given, and
\* never more messages than are stored.
C22_HistoryLimit ==
    [][ \A r \in DOMAIN rooms, u \in DOMAIN users :
          ( /\ last' = Event("GET /api/room/:id/messages", "none", r, u)
            /\ ticks' = ticks )
          => LET l == request'.limit
                 stored == rooms[r].messages
             IN /\ response'.status = 200
                /\ Len(response'.messages) <= Len(stored)
                /\ l \in DOMAIN PositiveLimit
                      => response'.messages = MostRecent(stored, PositiveLimit[l])
                /\ l = <<>> => response'.messages = MostRecent(stored, HistoryLimit) ]_vars

\* a query with limit 3 was answered from a log of more than 100 messages
\* whose newest entry was posted after the start
C22_Witness ==
    /\ last.name = "GET /api/room/:id/messages"
    /\ request.limit = <<"3">>
    /\ response.status = 200
    /\ Len(rooms[DemoRoom].messages) > HistoryLimit + 1
    /\ Len(response.messages) = 3
    /\ response.messages[3].id = msgSeq

\* number of entries of a list equal to x
Count(list, x) == Cardinality({i \in 1..Len(list) : list[i] = x})

\* C23: the room list returned to a caller holds each public room once and
\* each private room of the caller once, and nothing else.
C23_RoomList ==
    [][ \A u \in DOMAIN users :
          ( /\ last' = Event("GET /api/rooms", "none", "none", u)
            /\ ticks' = ticks )
          => /\ response'.status = 200
             /\ \A r \in HttpRoomIds :
                   Count(response'.list, r) =
                      IF r \in DOMAIN rooms
                         /\ (~ rooms[r].isPrivate \/ rooms[r].hostId = u)
                      THEN 1 ELSE 0 ]_vars

\* a list with the entries equal to x struck out
RECURSIVE Without(_, _)
Without(list, x) ==
    IF list = <<>> THEN <<>>
    ELSE IF Head(list) = x THEN Without(Tail(list), x)
    ELSE <<Head(list)>> \o Without(Tail(list), x)

\* C24: after a successful deletion of a room no user's membership list holds
\* its id, and every list is otherwise as it was.
C24_DeleteCascade ==
    [][ \A r \in HttpRoomIds, u \in DOMAIN users :
          ( /\ last' = Event("DELETE /api/room/:id", "none", r, u)
            /\ ticks' = ticks
            /\ response'.status = 200 )
          => /\ DOMAIN users' = DOMAIN users
             /\ \A x \in DOMAIN users :
                   /\ Count(users'[x].rooms, r) = 0
                   /\ users'[x].rooms = Without(users[x].rooms, r)
                   /\ users'[x].email = users[x].email ]_vars

\* a host deleted one of two rooms and the other one is still in the list
C24_Witness ==
    /\ last.name = "DELETE /api/room/:id"
    /\ response.status = 200
    /\ last.roomId \in minted
    /\ users[last.userId].rooms # <<>>
    /\ \A i \in 1..Len(users[last.userId].rooms) :
          users[last.userId].rooms[i] # last.roomId

\* the events that name a room and are dropped when it is missing
RoomEvents ==
    {"video-control", "send-message", "screen-share-start", "screen-share-stop",
     "leave-room"}

\* C21: a video-control, send-message, screen-share-start, screen-share-stop
\* or leave-room for a room id that is not in rooms (never created, or
\* deleted) changes no room and emits nothing to any connection.
C21_MissingRoomDropped ==
    [][ \A r \in RoomIds :
          ( /\ r \notin DOMAIN rooms
            /\ last'.name \in RoomEvents /\ last'.roomId = r
            /\ ticks' = ticks )
          => /\ rooms' = rooms
             /\ emitted' = <<>> ]_vars

\* an event arrived for the deleted demo room while a connection was still
\* joined to its io room
C21_Witness ==
    /\ last.name \in RoomEvents
    /\ last.roomId = DemoRoom
    /\ DemoRoom \notin DOMAIN rooms
    /\ ioRooms[DemoRoom] \ {last.socketId} # {}
    /\ emitted = <<>>

\* C29: a room leaves the rooms map only by a successful delete request of
\* its host; a leave-room or disconnect, including the one of the last
\* participant, keeps the room with its messages and playback state.
C29_NoAutoDelete ==
    [][ \A r \in DOMAIN rooms :
          /\ r \notin DOMAIN rooms'
                => /\ last' = Event("DELETE /api/room/:id", "none", r, rooms[r].hostId)
                   /\ response'.status = 200
          /\ ( last'.name \in {"leave-room", "disconnect"} /\ ticks' = ticks )
                => /\ r \in DOMAIN rooms'
                   /\ rooms'[r].messages = rooms[r].messages
                   /\ rooms'[r].videoUrl = rooms[r].videoUrl
                   /\ rooms'[r].isPlaying = rooms[r].isPlaying
                   /\ rooms'[r].currentTime = rooms[r].currentTime
                   /\ rooms'[r].lastUpdate = rooms[r].lastUpdate ]_vars

\* the last participant, who had posted and started playback, disconnected:
\* the room is empty and still holds the message and the playback state
C29_Witness ==
    /\ last.name = "disconnect"
    /\ last.roomId = DemoRoom
    /\ DemoRoom \in DOMAIN rooms
    /\ Positions(emitted, "user-left") # {}
    /\ rooms[DemoRoom].participants = <<>>
    /\ \E i \in 1..Len(rooms[DemoRoom].messages) :
          rooms[DemoRoom].messages[i].userId = last.userId
    /\ rooms[DemoRoom].isPlaying
    /\ rooms[DemoRoom].currentTime = 10

\* C25: a 'seek' video-control with a time sets currentTime to that time and
\* lastUpdate to now, and leaves isPlaying and videoUrl as they were.
C25_Seek ==
    [][ \A r \in DOMAIN rooms :
          ( /\ last'.name = "video-control" /\ last'.roomId = r
            /\ ticks' = ticks
            /\ control'[r].action = "seek"
            /\ control'[r].time # NoTime )
          => /\ rooms'[r].currentTime = control'[r].time
             /\ rooms'[r].lastUpdate = now
             /\ rooms'[r].isPlaying = rooms[r].isPlaying
             /\ rooms'[r].videoUrl = rooms[r].videoUrl ]_vars

\* a seek to 42 was applied, after the clock had moved, to a room that is
\* playing
C25_Witness ==
    /\ last.name = "video-control"
    /\ control[DemoRoom].action = "seek"
    /\ control[DemoRoom].time = 42
    /\ control[DemoRoom].at > 0
    /\ rooms[DemoRoom].isPlaying
    /\ rooms[DemoRoom].currentTime = 42

\* C26: a 'change-video' video-control sets videoUrl to the given url,
\* isPlaying to false, currentTime to 0 and lastUpdate to now, whatever the
\* playback state was.
C26_ChangeVideo ==
    [][ \A r \in DOMAIN rooms :
          ( /\ last'.name = "video-control" /\ last'.roomId = r
            /\ ticks' = ticks
            /\ control'[r].action = "change-video" )
          => /\ rooms'[r].videoUrl = control'[r].url
             /\ rooms'[r].isPlaying = FALSE
             /\ rooms'[r].currentTime = 0
             /\ rooms'[r].lastUpdate = now ]_vars

\* the video was changed after the clock had moved, with another connection
\* in the room to be told
C26_Witness ==
    /\ last.name = "video-control"
    /\ control[DemoRoom].action = "change-video"
    /\ control[DemoRoom].at > 0
    /\ rooms[DemoRoom].videoUrl = "v2"
    /\ rooms[DemoRoom].lastUpdate = control[DemoRoom].at
    /\ Len(emitted) = 1
    /\ emitted[1].to # {}

\* the actions the switch of video-control knows
ControlActions == {"play", "pause", "seek", "change-video"}

\* C30: a video-control whose action is not play, pause, seek or change-video
\* leaves the room as it was and reaches no connection as a video-update.
C30_UnknownActionRejected ==
    [][ \A r \in DOMAIN rooms :
          ( /\ last'.name = "video-control" /\ last'.roomId = r
            /\ ticks' = ticks
            /\ control'[r].action \notin ControlActions )
          => /\ rooms'[r] = rooms[r]
             /\ Receivers(emitted', {"video-update"}) = {} ]_vars

\* the rows of Q are rows of P in the order they have in P
KeepsOrder(P, Q) ==
    /\ \A i \in 1..Len(Q) : \E a \in 1..Len(P) : P[a] = Q[i]
    /\ \A i \in 1..Len(Q), j \in 1..Len(Q) :
          i < j => \E a \in 1..Len(P), b \in 1..Len(P) :
                      a < b /\ P[a] = Q[i] /\ P[b] = Q[j]

\* C27: room.participants never holds two rows with one user id; a join-room
\* leaves the roster as it was or appends one row for the joining user at
\* its end, and a leave-room or disconnect only removes rows, keeping the
\* order of the remaining ones.
C27_RosterOrder ==
    [][ \A r \in (DOMAIN rooms) \cap (DOMAIN rooms') :
          LET P == rooms[r].participants
              Q == rooms'[r].participants
          IN /\ \A i \in 1..Len(Q), j \in 1..Len(Q) : Q[i].id = Q[j].id => i = j
             /\ ( last'.name = "join-room" /\ last'.roomId = r )
                   => \/ Q = P
                      \/ /\ Q = Append(P, Q[Len(Q)])
                         /\ Q[Len(Q)].id = last'.userId
             /\ last'.name \in {"leave-room", "disconnect"}
                   => KeepsOrder(P, Q) ]_vars

\* the connection that had joined as "u2" dropped and left "u3" ahead of "u1":
\* rows stay in join order, not in the order of their ids
C27_Witness ==
    /\ last = Event("disconnect", "c2", DemoRoom, "u2")
    /\ Len(rooms[DemoRoom].participants) = 2
    /\ rooms[DemoRoom].participants[1].id = "u3"
    /\ rooms[DemoRoom].participants[2].id = "u1"
    /\ Len(emitted) = 2

\* C28: every event other than a send-message for the room leaves
\* room.messages as it was; a send-message leaves it as it was or makes it
\* a suffix of the stored messages, unaltered and in order, followed by
\* the one new message.
C28_AppendOnly ==
    [][ \A r \in (DOMAIN rooms) \cap (DOMAIN rooms') :
          LET M == rooms[r].messages
              N == rooms'[r].messages
              kept == Len(N) - 1
          IN IF last'.name = "send-message" /\ last'.roomId = r
             THEN \/ N = M
                  \/ /\ 0 <= kept /\ kept <= Len(M)
                     /\ \A i \in 1..kept : N[i] = M[Len(M) - kept + i]
                     /\ N[Len(N)].id = msgSeq'
                     /\ msgSeq' = msgSeq + 1
                     /\ N[Len(N)].userId = last'.userId
             ELSE N = M ]_vars

\* the message that took the log past its capacity is the newest entry, right
\* after the one posted before it, and the 501 oldest entries are gone
C28_Witness ==
    /\ last.name = "send-message"
    /\ Len(emitted) = 1
    /\ Len(rooms[DemoRoom].messages) = MessageKeep
    /\ rooms[DemoRoom].messages[MessageKeep].id = MessageCap + 1
    /\ rooms[DemoRoom].messages[MessageKeep - 1].id = MessageCap
    /\ rooms[DemoRoom].messages[1].id = MessageCap - MessageKeep + 2

\* C31: a join-room for a room id that is not in rooms emits one error to the
\* joining connection and nothing to any other, creates no participant row
\* and adds the connection neither to onlineUsers nor to the io room.
C31_JoinMissingRoom ==
    [][ \A r \in RoomIds :
          ( /\ r \notin DOMAIN rooms
            /\ last'.name = "join-room" /\ last'.roomId = r
            /\ ticks' = ticks )
          => /\ Len(emitted') = 1
             /\ emitted'[1].event = "error"
             /\ emitted'[1].to = {last'.socketId}
             /\ rooms' = rooms
             /\ onlineUsers' = onlineUsers
             /\ ioRooms' = ioRooms ]_vars

\* a connection that is in no room asked to join the deleted demo room while
\* another connection was still joined to its io room
C31_Witness ==
    /\ last.name = "join-room"
    /\ last.roomId = DemoRoom
    /\ DemoRoom \notin DOMAIN rooms
    /\ ioRooms[DemoRoom] # {}
    /\ last.socketId \notin ioRooms[DemoRoom]
    /\ last.socketId \notin DOMAIN onlineUsers
    /\ Len(emitted) = 1
    /\ emitted[1].event = "error"

\* C32: every room made by create-room holds a password if and only if it
\* is private.
C32_SecretIffPrivate ==
    \A r \in (DOMAIN rooms) \ {DemoRoom} :
        (rooms[r].password # NoPassword) <=> rooms[r].isPrivate

\* the playback tuple of a room
Playback(room) == <<room.videoUrl, room.isPlaying, room.currentTime, room.lastUpdate>>

\* C33: the playback tuple (videoUrl, isPlaying, currentTime, lastUpdate) of
\* a room changes only in a step that handles a video-control for that room;
\* every other event, a control for another room and the passing of time
\* leave it as it was.
C33_PassiveRelay ==
    [][ \A r \in (DOMAIN rooms) \cap (DOMAIN rooms') :
          Playback(rooms'[r]) # Playback(rooms[r])
             => /\ last'.name = "video-control"
                /\ last'.roomId = r
                /\ ticks' = ticks ]_vars

\* playback was started in the demo room, time passed, and a control for
\* the second room was handled: the demo room still holds its own tuple
C33_Witness ==
    /\ last.name = "video-control"
    /\ last.roomId = "r1"
    /\ "r1" \in DOMAIN rooms
    /\ rooms[DemoRoom].isPlaying
    /\ rooms["r1"].isPlaying
    /\ rooms[DemoRoom].lastUpdate < rooms["r1"].lastUpdate
    /\ now > rooms["r1"].lastUpdate

\* C34: a screen-frame changes no room, roster or index; it is emitted once,
\* with its frame, to the connections of the room other than the sender,
\* whoever the room's sharer is.
C34_FramePassThrough ==
    [][ ( last'.name = "screen-frame" /\ ticks' = ticks )
          => /\ rooms' = rooms
             /\ onlineUsers' = onlineUsers
             /\ screenSharers' = screenSharers
             /\ ioRooms' = ioRooms
             /\ Len(emitted') = 1
             /\ emitted'[1].event = "screen-frame"
             /\ emitted'[1].to = ioRooms[last'.roomId] \ {last'.socketId}
             /\ emitted'[1].userId = last'.userId
             /\ \E f \in Frames : emitted'[1].payload = <<f>> ]_vars

\* a frame sent in the name of a user who is not the room's sharer reached
\* the other connection of the room
C34_Witness ==
    /\ last.name = "screen-frame"
    /\ last.roomId \in DOMAIN rooms
    /\ rooms[last.roomId].screenSharer # NoSharer
    /\ rooms[last.roomId].screenSharer.userId # last.userId
    /\ Len(emitted) = 1
    /\ emitted[1].to # {}
    /\ last.socketId \notin emitted[1].to

\* t is s without its leading and trailing spaces
IsTrimOf(t, s) ==
    /\ t = <<>> \/ (t[1] # " " /\ t[Len(t)] # " ")
    /\ \E a \in 0..(Len(s) - Len(t)) :
          /\ \A i \in 1..a : s[i] = " "
          /\ \A i \in 1..Len(t) : s[a + i] = t[i]
          /\ \A i \in (a + Len(t) + 1)..Len(s) : s[i] = " "

\* C35: a send-message of a participant is accepted whatever its body; the
\* message stored and the one broadcast carry the body without its leading
\* and trailing white space, which is the empty string for a body that is
\* empty or holds white space only.
C35_TrimmedBody ==
    [][ \A r \in DOMAIN rooms :
          ( /\ last'.name = "send-message" /\ last'.roomId = r
            /\ ticks' = ticks
            /\ RowsOf(rooms[r].participants, last'.userId) # {} )
          => LET log == rooms'[r].messages
                 stored == log[Len(log)]
             IN /\ msgSeq' = msgSeq + 1
                /\ stored.id = msgSeq'
                /\ IsTrimOf(stored.message, last'.body)
                /\ (\A i \in 1..Len(last'.body) : last'.body[i] = " ")
                      => stored.message = <<>>
                /\ Len(emitted') = 1
                /\ emitted'[1].event = "new-message"
                /\ emitted'[1].payload = <<stored>> ]_vars

\* a body of two spaces was accepted and reached both connections of the room
\* as the empty string
C35_Witness ==
    /\ last.name = "send-message"
    /\ last.body = <<" ", " ">>
    /\ Len(emitted) = 1
    /\ emitted[1].payload[1].message = <<>>
    /\ Cardinality(emitted[1].to) = 2
    /\ rooms[DemoRoom].messages[Len(rooms[DemoRoom].messages)].message = <<>>

\* C36: once the disconnect of a connection has been handled, no room holds
\* a participant row whose socketId is that connection.
C36_NoGhostRows ==
    \A c \in SocketIds :
        conn[c] = "closed"
           => \A r \in DOMAIN rooms :
                 \A i \in 1..Len(rooms[r].participants) :
                    rooms[r].participants[i].socketId # c

\* C37: the room-state snapshot of a private room is emitted by join-room
\* only to a connection that acts for the room's host.
C37_PrivateSnapshot ==
    [][ \A r \in DOMAIN rooms :
          ( /\ last'.name = "join-room" /\ last'.roomId = r
            /\ ticks' = ticks
            /\ rooms[r].isPrivate
            /\ last'.userId # rooms[r].hostId )
          => Positions(emitted', "room-state") = {} ]_vars

\* C39: every onlineUsers entry whose room exists names a user who has a row
\* in that room's participants.
C39_ReverseIndexConsistent ==
    \A c \in DOMAIN onlineUsers :
        onlineUsers[c].roomId \in DOMAIN rooms
           => RowsOf(rooms[onlineUsers[c].roomId].participants,
                     onlineUsers[c].userId) # {}

\* C38: no two stored accounts have the same email.
C38_UniqueEmails ==
    \A a \in DOMAIN users, b \in DOMAIN users :
        a # b => users[a].email # users[b].email

\* C40: the send-message handler of the part_001 variants, given the event
\* that part_000 has just handled in the same state, reaches the same
\* state and emits the same broadcasts (the other socket handlers of the
\* variants are the same statements).
C40_VariantsAgree ==
    [][ ( last'.name = "send-message" /\ ticks' = ticks )
          => SendMessagePart001(last'.socketId, last'.roomId, last'.userId,
                                last'.body) ]_vars

=============================================================================
